---------------------------- MODULE Spec2Model ----------------------------
(***************************************************************************)
(* Mobius web client.                                                      *)
(*                                                                         *)
(* Three state machines are modelled:                                        *)
(*                                                                         *)
(*   ChannelSpec  one instance of the Providers websocket service          *)
(*                (mobius/www/static/app/services.js): send_request,       *)
(*                sock_open, sock_message, sock_close, init, driven by     *)
(*                the browser's WebSocket events.                          *)
(*                                                                         *)
(*   FormSpec     UploadFormCtrl (the controllers file): validate_file     *)
(*                and its $timeout callback, uploadFile.                   *)
(*                                                                         *)
(*   ProgressSpec uploadFile, open_modal, the upload's progress            *)
(*                notifications and UploadModalCtrl's "progress" listener. *)
(*                                                                         *)
(* JSON text is modelled as a sequence of tokens; JSON.stringify and       *)
(* JSON.parse are computed on it.                                          *)
(***************************************************************************)
EXTENDS Integers, Sequences, FiniteSets, TLC

VARIABLES
    \* ---- Providers channel (services.js) ----
    readyState,      \* self._web_sock.readyState
    handlers,        \* the socket's onopen / onmessage / onclose properties
    callbacks,       \* var callbacks = []
    request_queue,   \* var request_queue = []
    wire,            \* frames handed to self._web_sock.send, in order
    delivered,       \* invocations cb(response), in order
    console,         \* lines written by console.log
    sockets,         \* number of WebSocket objects constructed
    in_open_task,    \* the browser is inside its connection-established task
    calls,           \* history: arguments of send_request, in call order
    inbox,           \* history: data of the message events dispatched
    calls_at_open,   \* history: how many send_request calls preceded the open event
    last,            \* history: the channel operation that ran last
    \* ---- upload form and modal (controllers) ----
    object_file,         \* $scope.object_file
    object_file_error,   \* $scope.object_file_error
    show_object_error,   \* $scope.show_object_error
    timeouts,            \* callbacks handed to $timeout, not yet run
    uploads,             \* uploads started by Upload.upload, in order
    modals,              \* modal instances opened by $uibModal.open
    location,            \* $location.path()
    flash                \* messages created with Flash.create

channelVars == <<readyState, handlers, callbacks, request_queue, wire,
                 delivered, console, sockets, in_open_task, calls, inbox,
                 calls_at_open>>
uploadVars  == <<object_file, object_file_error, show_object_error, timeouts,
                 uploads, modals, location, flash>>
vars == <<channelVars, uploadVars, last>>

-----------------------------------------------------------------------------
(* Bounds of the model *)

MaxCalls == 3        \* send_request calls in a behaviour
MaxMsgs == 2         \* inbound message events in a behaviour
MaxUploads == 2      \* uploads started in a behaviour
MaxTimeouts == 2     \* $timeout callbacks pending at once
ProgressTotal == 2   \* evt.total of an upload's progress events

-----------------------------------------------------------------------------
(* Small helpers *)

Min(a, b) == IF a <= b THEN a ELSE b

Count(s, x) == Cardinality({i \in 1..Len(s) : s[i] = x})

IsPrefix(s, t) == Len(s) <= Len(t) /\ SubSeq(t, 1, Len(s)) = s

-----------------------------------------------------------------------------
(* JSON: an object is a sequence of members [k |-> key, v |-> number];     *)
(* its text is a sequence of tokens.                                       *)

Keys == {"command", "seq", "apples"}
Nums == 0..2

Quote(k) == "\"" \o k \o "\""

Member(m) == <<Quote(m.k), ":", ToString(m.v)>>

RECURSIVE Members(_)
Members(obj) ==
    IF obj = <<>> THEN <<>>
    ELSE IF Len(obj) = 1 THEN Member(obj[1])
    ELSE Member(obj[1]) \o <<",">> \o Members(Tail(obj))

\* JSON.stringify(request)
JSON_stringify(obj) == <<"{">> \o Members(obj) \o <<"}">>

IsKeyToken(t) == \E k \in Keys : Quote(k) = t
IsNumToken(t) == \E n \in Nums : ToString(n) = t
KeyOf(t) == CHOOSE k \in Keys : Quote(k) = t
NumOf(t) == CHOOSE n \in Nums : ToString(n) = t

\* the tokens between the braces are  key : num ( , key : num )*
MembersOk(inner) ==
    \/ inner = <<>>
    \/ /\ Len(inner) % 4 = 3
       /\ \A i \in 1..Len(inner) :
             CASE i % 4 = 1 -> IsKeyToken(inner[i])
               [] i % 4 = 2 -> inner[i] = ":"
               [] i % 4 = 3 -> IsNumToken(inner[i])
               [] OTHER     -> inner[i] = ","

\* whether JSON.parse(data) returns (TRUE) or throws SyntaxError (FALSE)
JSON_parses(data) ==
    /\ Len(data) >= 2
    /\ data[1] = "{"
    /\ data[Len(data)] = "}"
    /\ MembersOk(SubSeq(data, 2, Len(data) - 1))

\* JSON.parse(data), for a text that parses
JSON_parse(data) ==
    LET inner == SubSeq(data, 2, Len(data) - 1)
    IN  [i \in 1..((Len(inner) + 1) \div 4) |->
            [k |-> KeyOf(inner[4 * i - 3]), v |-> NumOf(inner[4 * i - 1])]]

-----------------------------------------------------------------------------
(* The Providers channel *)

\* WebSocket.readyState values
CONNECTING == 0
OPEN == 1
CLOSING == 2
CLOSED == 3

\* the object passed to send_request by TestControl, and a second one
Requests == { <<[k |-> "command", v |-> 1]>>,
              <<[k |-> "command", v |-> 2], [k |-> "seq", v |-> 0]>> }

\* data of inbound message events: two JSON texts and two that are not JSON
InboundData == { <<"{", Quote("apples"), ":", "1", "}">>,
                 <<"{", Quote("apples"), ":", "2", ",", Quote("seq"), ":", "0", "}">>,
                 <<"{", Quote("apples"), ":">>,
                 <<"apples">> }

\* the on_recv argument of the constructor: absent, or TestControl's handler
Listeners == {"msg_handler"}
NoListener == "undefined"

ws_url == "provider_request"

\* self.sock_url()
sock_url == ws_url

\* init(): one socket is constructed, onopen and onmessage are assigned
\* (onclose is not), and on_recv, when given, is pushed on callbacks.
init(on_recv) ==
    [ sockets   |-> 1,
      handlers  |-> [onopen |-> "sock_open", onmessage |-> "sock_message",
                     onclose |-> "unset"],
      callbacks |-> IF on_recv # NoListener THEN <<on_recv>> ELSE <<>> ]

\* send_request, had it queued every request whatever the ready state
send_request_always_queues(request) ==
    [queue |-> Append(request_queue, request), wire |-> wire]

\* send_request, had it queued only while the socket is connecting
send_request_unless_connecting(request) ==
    IF readyState = CONNECTING
    THEN [queue |-> Append(request_queue, request), wire |-> wire]
    ELSE [queue |-> request_queue,
          wire  |-> Append(wire, JSON_stringify(request))]

\* send_request, had it put the request at the front of the queue
send_request_unshift(request) ==
    IF readyState # OPEN
    THEN [queue |-> <<request>> \o request_queue, wire |-> wire]
    ELSE [queue |-> request_queue,
          wire  |-> Append(wire, JSON_stringify(request))]

\* self.send_request(request): the queue and the wire after the call
send_request(request) ==
    IF readyState # OPEN
    THEN [queue |-> Append(request_queue, request), wire |-> wire]
    ELSE [queue |-> request_queue,
          wire  |-> Append(wire, JSON_stringify(request))]

\* sock_open, had it drained the queue from its end
sock_open_reversed ==
    [queue |-> <<>>,
     wire  |-> wire \o [i \in 1..Len(request_queue) |->
                            JSON_stringify(
                                request_queue[Len(request_queue) + 1 - i])]]

\* sock_open, had it not emptied the queue
sock_open_keeps_queue ==
    [queue |-> request_queue,
     wire  |-> wire \o [i \in 1..Len(request_queue) |->
                            JSON_stringify(request_queue[i])]]

\* sock_open(event): the queue and the wire after the handler
sock_open ==
    [queue |-> <<>>,
     wire  |-> wire \o [i \in 1..Len(request_queue) |->
                            JSON_stringify(request_queue[i])]]

\* sock_message, had it invoked every listener twice
sock_message_twice(data) ==
    IF ~JSON_parses(data) THEN <<>>
    ELSE [i \in 1..(2 * Len(callbacks)) |->
             [cb |-> callbacks[(i + 1) \div 2], response |-> JSON_parse(data)]]

\* sock_message, had it caught the parse error and gone on with an empty
\* response
sock_message_swallows(data) ==
    [i \in 1..Len(callbacks) |->
        [cb |-> callbacks[i],
         response |-> IF JSON_parses(data) THEN JSON_parse(data) ELSE <<>>]]

\* sock_message(message): the listener invocations made for message.data;
\* none when JSON.parse throws
sock_message(data) ==
    IF ~JSON_parses(data) THEN <<>>
    ELSE [i \in 1..Len(callbacks) |->
             [cb |-> callbacks[i], response |-> JSON_parse(data)]]

\* sock_close(event): the line it logs
sock_close == "Web socket " \o sock_url \o " is closed."

\* new Providers(ws_url, on_recv)
ChannelInit(on_recv) ==
    /\ readyState = CONNECTING
    /\ sockets = init(on_recv).sockets
    /\ handlers = init(on_recv).handlers
    /\ callbacks = init(on_recv).callbacks
    /\ request_queue = <<>>
    /\ wire = <<>>
    /\ delivered = <<>>
    /\ console = <<>>
    /\ in_open_task = FALSE
    /\ calls = <<>>
    /\ inbox = <<>>
    /\ calls_at_open = 0

\* A caller invokes send_request.  Script runs only between the browser's
\* tasks, never inside the connection-established task.
SendRequest(request) ==
    /\ ~in_open_task
    /\ Len(calls) < MaxCalls
    /\ request_queue' = send_request(request).queue
    /\ wire' = send_request(request).wire
    /\ calls' = Append(calls, request)
    /\ last' = "send_request"
    /\ UNCHANGED <<readyState, handlers, callbacks, delivered, console,
                   sockets, in_open_task, inbox, calls_at_open, uploadVars>>

\* The connection is established: the browser's task first changes
\* readyState to OPEN ...
ReadyStateOpen ==
    /\ readyState = CONNECTING
    /\ readyState' = OPEN
    /\ in_open_task' = TRUE
    /\ last' = "readyState"
    /\ UNCHANGED <<handlers, callbacks, request_queue, wire, delivered,
                   console, sockets, calls, inbox, calls_at_open, uploadVars>>

\* ... and then, in the same task, fires the open event at the socket.
FireOpen ==
    /\ in_open_task
    /\ in_open_task' = FALSE
    /\ IF handlers.onopen = "sock_open"
       THEN request_queue' = sock_open.queue /\ wire' = sock_open.wire
       ELSE UNCHANGED <<request_queue, wire>>
    /\ calls_at_open' = Len(calls)
    /\ last' = "open"
    /\ UNCHANGED <<readyState, handlers, callbacks, delivered, console,
                   sockets, calls, inbox, uploadVars>>

\* A message event is fired at the socket.
FireMessage(data) ==
    /\ readyState \in {OPEN, CLOSING}
    /\ ~in_open_task
    /\ Len(inbox) < MaxMsgs
    /\ inbox' = Append(inbox, data)
    /\ IF handlers.onmessage = "sock_message"
       THEN /\ delivered' = delivered \o sock_message(data)
            /\ last' = IF JSON_parses(data) THEN "message"
                       ELSE "message:SyntaxError"
       ELSE /\ UNCHANGED delivered
            /\ last' = "message:unhandled"
    /\ UNCHANGED <<readyState, handlers, callbacks, request_queue, wire,
                   console, sockets, in_open_task, calls, calls_at_open,
                   uploadVars>>

\* The closing handshake starts.
StartClosing ==
    /\ readyState = OPEN
    /\ ~in_open_task
    /\ readyState' = CLOSING
    /\ last' = "closing"
    /\ UNCHANGED <<handlers, callbacks, request_queue, wire, delivered,
                   console, sockets, in_open_task, calls, inbox, calls_at_open,
                   uploadVars>>

\* The connection is closed (or could not be established): readyState
\* becomes CLOSED and the close event is fired at the socket.
FireClose ==
    /\ readyState # CLOSED
    /\ ~in_open_task
    /\ readyState' = CLOSED
    /\ IF handlers.onclose = "sock_close"
       THEN console' = Append(console, sock_close)
       ELSE UNCHANGED console
    /\ last' = "close"
    /\ UNCHANGED <<handlers, callbacks, request_queue, wire, delivered,
                   sockets, in_open_task, calls, inbox, calls_at_open,
                   uploadVars>>

-----------------------------------------------------------------------------
(* The upload form (UploadFormCtrl) and the progress modal (UploadModalCtrl) *)

\* var max_file_size = 60 * 1024 * 1024;
max_file_size == 60 * 1024 * 1024

\* sizes of the files a user selects: at the ceiling, one byte over, 61 MB
FileSizes == {max_file_size, max_file_size + 1, 61 * 1024 * 1024}

NoFile == [defined |-> FALSE, size |-> 0]
Files == {[defined |-> TRUE, size |-> n] : n \in FileSizes}

\* the route whose template holds the upload form, and the one shown after
\* a successful upload
FormPath == "/"
ComparePath == "/compare"

\* "File is too large. Max: " + ((max_file_size / 1024) / 1024) + "MB"
TooLargeMessage ==
    "File is too large. Max: " \o ToString((max_file_size \div 1024) \div 1024)
        \o "MB"

\* $scope.validate_file(): the error text it leaves and the callbacks it hands
\* to $timeout (each carries the show_tooltip it closed over); it returns
\* early, changing nothing, when no file is selected.
validate_file ==
    IF ~object_file.defined
    THEN [error |-> object_file_error, timeouts |-> timeouts]
    ELSE LET show_tooltip == object_file.size > max_file_size
         IN  [error    |-> IF show_tooltip THEN TooLargeMessage ELSE "",
              timeouts |-> Append(timeouts, show_tooltip)]

\* Math.min(100, parseInt(100.0 * evt.loaded / evt.total))
percent_of(loaded, total) == Min(100, (100 * loaded) \div total)

\* the listener, had it compared with > instead of >=
on_progress_above_100(modal, percent) ==
    [state    |-> IF percent > 100 THEN "closed" ELSE modal.state,
     result   |-> IF percent > 100 THEN "undefined" ELSE modal.result,
     progress |-> percent]

\* $scope.$on("progress", ...) of one modal: its scope and instance after
\* the event
on_progress(modal, percent) ==
    [state    |-> IF percent >= 100 THEN "closed" ELSE modal.state,
     result   |-> IF percent >= 100 THEN "undefined" ELSE modal.result,
     progress |-> percent]

\* $rootScope.$broadcast("progress", percent): every modal whose scope is
\* alive runs its listener
broadcast_progress(percent) ==
    [m \in 1..Len(modals) |->
        IF modals[m].state = "open" THEN on_progress(modals[m], percent)
        ELSE modals[m]]

\* open_modal(): $uibModal.open creates an instance whose controller sets
\* $scope.progress = 0 and registers the listener
open_modal == Append(modals, [state |-> "open", result |-> "", progress |-> 0])

\* $scope.uploadFile(file): the upload issued by Upload.upload
uploadFile ==
    Append(uploads, [loaded |-> 0, status |-> "active"])

UploadInit ==
    /\ object_file = NoFile
    /\ object_file_error = ""
    /\ show_object_error = FALSE
    /\ timeouts = <<>>
    /\ uploads = <<>>
    /\ modals = <<>>
    /\ location = FormPath
    /\ flash = <<>>

\* The user picks a file in the form's file input, bound to $scope.object_file.
SelectFile(f) ==
    /\ location = FormPath
    /\ object_file # f
    /\ object_file' = f
    /\ UNCHANGED <<object_file_error, show_object_error, timeouts, uploads,
                   modals, location, flash, channelVars, last>>

ValidateFile ==
    /\ location = FormPath
    /\ Len(timeouts) < MaxTimeouts
    /\ object_file_error' = validate_file.error
    /\ timeouts' = validate_file.timeouts
    /\ UNCHANGED <<object_file, show_object_error, uploads, modals, location,
                   flash, channelVars, last>>

\* The oldest callback handed to $timeout runs.
RunTimeout ==
    /\ timeouts # <<>>
    /\ show_object_error' = Head(timeouts)
    /\ timeouts' = Tail(timeouts)
    /\ UNCHANGED <<object_file, object_file_error, uploads, modals, location,
                   flash, channelVars, last>>

\* The form is submitted with the selected file.
UploadFile ==
    /\ location = FormPath
    /\ object_file.defined
    /\ Len(uploads) < MaxUploads
    /\ uploads' = uploadFile
    /\ modals' = open_modal
    /\ UNCHANGED <<object_file, object_file_error, show_object_error, timeouts,
                   location, flash, channelVars, last>>

\* The upload notifies progress: function progress(evt).  evt.loaded never
\* decreases; a browser may report more than evt.total.
Progress(u, loaded) ==
    /\ uploads[u].status = "active"
    /\ loaded >= uploads[u].loaded
    /\ uploads' = [uploads EXCEPT ![u].loaded = loaded]
    /\ modals' = broadcast_progress(percent_of(loaded, ProgressTotal))
    /\ UNCHANGED <<object_file, object_file_error, show_object_error, timeouts,
                   location, flash, channelVars, last>>

\* The upload's promise resolves: function success(response).
UploadSuccess(u) ==
    /\ uploads[u].status = "active"
    /\ uploads' = [uploads EXCEPT ![u].status = "success"]
    /\ location' = ComparePath
    /\ UNCHANGED <<object_file, object_file_error, show_object_error, timeouts,
                   modals, flash, channelVars, last>>

\* The upload's promise is rejected: function error(response).
UploadError(u) ==
    /\ uploads[u].status = "active"
    /\ uploads' = [uploads EXCEPT ![u].status = "error"]
    /\ flash' = Append(flash, "danger")
    /\ UNCHANGED <<object_file, object_file_error, show_object_error, timeouts,
                   modals, location, channelVars, last>>

\* $scope.ok(): $uibModalInstance.close("ferriss blabla")
ModalOk(m) ==
    /\ modals[m].state = "open"
    /\ modals' = [modals EXCEPT ![m].state = "closed",
                                ![m].result = "ferriss blabla"]
    /\ UNCHANGED <<object_file, object_file_error, show_object_error, timeouts,
                   uploads, location, flash, channelVars, last>>

\* $scope.cancel(): $uibModalInstance.dismiss("cancel")
ModalCancel(m) ==
    /\ modals[m].state = "open"
    /\ modals' = [modals EXCEPT ![m].state = "dismissed",
                                ![m].result = "cancel"]
    /\ UNCHANGED <<object_file, object_file_error, show_object_error, timeouts,
                   uploads, location, flash, channelVars, last>>

-----------------------------------------------------------------------------
(* Specifications *)

\* a channel constructed with or without a listener
Init ==
    /\ \E on_recv \in Listeners \cup {NoListener} : ChannelInit(on_recv)
    /\ UploadInit
    /\ last = "init"

\* the page of the upload form; its channel is TestControl's
PageInit ==
    /\ ChannelInit("msg_handler")
    /\ UploadInit
    /\ last = "init"

ChannelNext ==
    \/ \E request \in Requests : SendRequest(request)
    \/ ReadyStateOpen
    \/ FireOpen
    \/ \E data \in InboundData : FireMessage(data)
    \/ StartClosing
    \/ FireClose

\* the form: selection, validation and submission
FormNext ==
    \/ \E f \in Files : SelectFile(f)
    \/ ValidateFile
    \/ RunTimeout
    \/ UploadFile
    \/ \E u \in 1..Len(uploads) : UploadSuccess(u)
    \/ \E u \in 1..Len(uploads) : UploadError(u)

\* the uploads and their progress modals
ProgressNext ==
    \/ \E f \in Files : SelectFile(f)
    \/ UploadFile
    \/ \E u \in 1..Len(uploads), loaded \in 0..(ProgressTotal + 1) :
          Progress(u, loaded)
    \/ \E u \in 1..Len(uploads) : UploadSuccess(u)
    \/ \E u \in 1..Len(uploads) : UploadError(u)
    \/ \E m \in 1..Len(modals) : ModalOk(m)
    \/ \E m \in 1..Len(modals) : ModalCancel(m)

ChannelSpec == Init /\ [][ChannelNext]_vars
FormSpec == PageInit /\ [][FormNext]_vars
ProgressSpec == PageInit /\ [][ProgressNext]_vars

-----------------------------------------------------------------------------
(* Properties of the Providers channel (ChannelSpec) *)

\* the frames of a sequence of requests
Frames(requests) == [i \in 1..Len(requests) |-> JSON_stringify(requests[i])]

\* C1: the frames the open handler transmits for the send_request calls made
\* before the socket opened are exactly those calls' frames in call order.
C1_FlushIsFifo ==
    last = "open" => wire = Frames(calls)

\* a flush of two different requests
C1_Witness ==
    /\ last = "open"
    /\ Len(wire) >= 2
    /\ wire[1] # wire[2]

\* C2: nothing is transmitted before the open event; when it fires, every
\* request queued while connecting has produced exactly one frame and the
\* queue is empty.
C2_QueuedSentExactlyOnce ==
    /\ (readyState = CONNECTING \/ in_open_task) =>
          /\ wire = <<>>
          /\ Len(request_queue) = Len(calls)
    /\ last = "open" =>
          /\ request_queue = <<>>
          /\ Len(wire) = Len(calls)
          /\ \A r \in Requests :
                Count(wire, JSON_stringify(r)) = Count(calls, r)

\* one send of {command:1} while connecting, then the open event: exactly the
\* frame {"command":1} and an empty queue
C2_Witness ==
    /\ last = "open"
    /\ calls = << <<[k |-> "command", v |-> 1]>> >>
    /\ wire = << <<"{", "\"command\"", ":", "1", "}">> >>
    /\ request_queue = <<>>

\* C3: a send_request call made while the socket is open transmits the
\* request's frame at once and leaves the queue as it was.
C3_SendWhenOpenIsImmediate ==
    [][(Len(calls') > Len(calls) /\ readyState = OPEN) =>
          /\ wire' = Append(wire, JSON_stringify(calls'[Len(calls')]))
          /\ request_queue' = request_queue]_vars

\* a send made after the open event that followed queued sends
C3_Witness ==
    /\ last = "send_request"
    /\ readyState = OPEN
    /\ Len(calls) > calls_at_open
    /\ Len(wire) = Len(calls)
    /\ request_queue = <<>>

\* the invocations of listener l, in order
DeliveredTo(l) == SelectSeq(delivered, LAMBDA d : d.cb = l)

\* the inbound messages that are JSON, in order
ParsedInbox == SelectSeq(inbox, JSON_parses)

\* C4: every inbound message is delivered, as its parsed payload, to every
\* registered listener exactly once; a channel without a listener invokes
\* nothing.
C4_EachListenerOncePerMessage ==
    /\ \A i \in 1..Len(delivered) : delivered[i].cb \in Listeners
    /\ \A l \in Listeners :
          [i \in 1..Len(DeliveredTo(l)) |->
              JSON_stringify(DeliveredTo(l)[i].response)]
            = IF \E j \in 1..Len(callbacks) : callbacks[j] = l
              THEN ParsedInbox ELSE <<>>

\* two messages delivered to the listener
C4_Witness ==
    /\ last = "message"
    /\ callbacks = <<"msg_handler">>
    /\ Len(delivered) = 2
    /\ delivered[1].response = <<[k |-> "apples", v |-> 1]>>

\* C7: when the socket closes, the sock_close notice naming the endpoint is
\* logged, and no socket is created and nothing is transmitted.
C7_CloseIsLogged ==
    last = "close" =>
        /\ console = <<"Web socket provider_request is closed.">>
        /\ sockets = 1

\* C8: once the socket has closed it stays closed, nothing is transmitted any
\* more, and every later send_request is appended to the queue.
C8_ClosedChannelOnlyQueues ==
    [][readyState = CLOSED =>
          /\ readyState' = CLOSED
          /\ wire' = wire
          /\ IsPrefix(request_queue, request_queue')
          /\ Len(calls') > Len(calls) =>
                request_queue' = Append(request_queue, calls'[Len(calls')])]_vars

\* a send on a socket that opened and then closed
C8_Witness ==
    /\ last = "send_request"
    /\ readyState = CLOSED
    /\ calls_at_open < Len(calls)
    /\ wire # <<>>
    /\ request_queue # <<>>

\* C9: an inbound message that is not JSON invokes no listener and leaves the
\* queue and the listener list as they were.
C9_MalformedInvokesNothing ==
    [][(Len(inbox') > Len(inbox) /\ ~JSON_parses(inbox'[Len(inbox')])) =>
          /\ delivered' = delivered
          /\ request_queue' = request_queue
          /\ callbacks' = callbacks]_vars

\* a malformed message on a channel that has a listener
C9_Witness ==
    /\ last = "message:SyntaxError"
    /\ callbacks # <<>>

\* C10: while the channel has not closed, the frames transmitted followed by
\* the frames of the queued requests are the frames of all send_request calls
\* in call order.
C10_SentThenQueuedIsCallOrder ==
    readyState # CLOSED => wire \o Frames(request_queue) = Frames(calls)

\* a request sent after the open event, behind requests queued before it
C10_Witness ==
    /\ last = "send_request"
    /\ readyState = OPEN
    /\ calls_at_open >= 1
    /\ Len(calls) > calls_at_open
    /\ calls[Len(calls)] # calls[1]

-----------------------------------------------------------------------------
(* Properties of the upload form (FormSpec) and the progress modal
   (ProgressSpec) *)

\* C5: an upload request for a file above the ceiling is issued only after
\* validation has flagged the error (the text is set and the tooltip shown).
C5_OversizeFlaggedBeforeUpload ==
    [][(Len(uploads') > Len(uploads) /\ object_file.size > max_file_size) =>
          /\ object_file_error # ""
          /\ show_object_error]_vars

\* C6: the modal opened for an upload is closed once that upload's 100 event
\* has been broadcast, and the listener closes a modal at no event below 100.
C6_ModalClosesAt100 ==
    /\ Len(modals) = Len(uploads)
    /\ \A u \in 1..Len(uploads) :
          percent_of(uploads[u].loaded, ProgressTotal) >= 100 =>
              modals[u].state # "open"
    /\ \A m \in 1..Len(modals) :
          /\ modals[m].state = "open" => modals[m].progress < 100
          /\ (modals[m].state = "closed" /\ modals[m].result = "undefined") =>
                modals[m].progress >= 100

\* a modal closed by the listener at the 100 event of its upload
C6_Witness ==
    \E u \in 1..Len(uploads) :
        /\ uploads[u].loaded = ProgressTotal
        /\ modals[u].state = "closed"
        /\ modals[u].result = "undefined"
        /\ modals[u].progress = 100

=============================================================================
